---- MODULE Spec2Model ----
(***************************************************************************)
(* Model of src/main.py: the Duplicator-Spoiler game.  A position moves    *)
(* from initial_position up to final_position = day + month + year by      *)
(* steps of 1 .. max_move = day + month; whoever moves onto final_position *)
(* wins.  SpoilerBot computes, by backwards induction, the set             *)
(* winning_strategy and the map winning_moves, and plays the Spoiler.      *)
(***************************************************************************)
EXTENDS Integers, Sequences, FiniteSets, TLC

\* ---------------------------------------------------------------- bounds
\* Largest day and month typed at the date prompt, last year typed, and how
\* far below final_position the chosen initial position may lie.
MaxDay == 2
MaxMonth == 2
MaxYear == 1852
MaxSpan == 10

\* Largest day, month and year passed to SpoilerBot when it is constructed
\* directly (EngineSpec).
MaxEngineDay == 2
MaxEngineMonth == 2
MaxEngineYear == 8

\* ------------------------------------------------------------- constants
\* is_valid_date accepts only year > 1850 (main.py:10).
MinYear == 1851
DUPLICATOR_ID == 0
SPOILER_ID == 1

\* Python's None, and an optional value v, as sequences of length 0 and 1.
None == << >>
Some(v) == << v >>

\* Python's range(a, b).
Range(a, b) == a .. (b - 1)
Max(S) == CHOOSE x \in S : \A y \in S : y <= x
Min(S) == CHOOSE x \in S : \A y \in S : x <= y
max2(a, b) == IF a >= b THEN a ELSE b
min2(a, b) == IF a <= b THEN a ELSE b
Elems(s) == { s[k] : k \in 1 .. Len(s) }

VARIABLES
    pc,                 \* position of the main program
    birth_day, birth_month, birth_year,      \* GameInitialization class fields
    initial_position,   \* local of __main__ (line 303)
    game_mode,          \* local of __main__ (line 305)
    \* fields of the Game object
    next_player, winner, current_position, game_initial_position,
    final_position, max_move,
    \* fields of the SpoilerBot object
    winning_strategy, winning_moves,
    \* locals of find_winning_strategy
    previous_positions, new_positions, updated_strategy, todo,
    \* observations: the last advice logged by advisor_mode, the argument of
    \* the last perform_move call and whether that call raised
    advice, last_move, raised

gameVars == << next_player, winner, current_position, game_initial_position,
               final_position, max_move >>
botVars == << winning_strategy, winning_moves >>
loopVars == << previous_positions, new_positions, updated_strategy, todo >>
inputVars == << birth_day, birth_month, birth_year, initial_position, game_mode >>
obsVars == << advice, last_move, raised >>
vars == << pc, inputVars, gameVars, botVars, loopVars, obsVars >>

\* ------------------------------------------------------- is_valid_date
day_count_for_month(year) ==
    [ k \in 0 .. 12 |->
        IF k = 0 THEN 0
        ELSE IF k = 2
             THEN (IF year % 4 = 0 /\ (year % 100 # 0 \/ year % 400 = 0)
                   THEN 29 ELSE 28)
             ELSE IF k \in {4, 6, 9, 11} THEN 30 ELSE 31 ]

is_valid_date(year, month, day) ==
    /\ 1 <= month /\ month <= 12
    /\ 1 <= day /\ day <= day_count_for_month(year)[month]
    /\ year > MinYear - 1

Days == 1 .. MaxDay
Months == 1 .. MaxMonth
Years == MinYear .. MaxYear
Modes == { "random", "smart", "advisor" }

\* ------------------------------------------------------------ Game
\* Mutant of MoveAccepted: the overshoot test is missing.
MoveAccepted_overshoot(move) ==
    /\ winner = None
    /\ move >= 1 /\ move <= max_move

\* Mutant of MoveAccepted: the lower bound of the move is missing.
MoveAccepted_nonpositive(move) ==
    /\ winner = None
    /\ move <= max_move
    /\ current_position + move <= final_position

\* The two assertions of perform_move.
MoveAccepted(move) ==
    /\ winner = None
    /\ move >= 1 /\ move <= max_move
    /\ current_position + move <= final_position

\* Mutant of perform_move: next_player is toggled only when nobody has won.
perform_move_keeps_turn(move) ==
    /\ current_position' = current_position + move
    /\ winner' = IF current_position + move = final_position
                 THEN Some(next_player) ELSE winner
    /\ next_player' = IF current_position + move = final_position
                      THEN next_player ELSE (next_player + 1) % 2
    /\ UNCHANGED << game_initial_position, final_position, max_move >>

\* Mutant of perform_move: the win test runs after next_player is toggled.
perform_move_late_winner(move) ==
    /\ current_position' = current_position + move
    /\ next_player' = (next_player + 1) % 2
    /\ winner' = IF current_position + move = final_position
                 THEN Some((next_player + 1) % 2) ELSE winner
    /\ UNCHANGED << game_initial_position, final_position, max_move >>

\* perform_move(move): the assignments made when both assertions pass.
perform_move(move) ==
    /\ current_position' = current_position + move
    /\ winner' = IF current_position + move = final_position
                 THEN Some(next_player) ELSE winner
    /\ next_player' = (next_player + 1) % 2
    /\ UNCHANGED << game_initial_position, final_position, max_move >>

\* Game.__init__(day, month, year, initial_position); asserts initial >= 1.
Game_init(day, month, year, initial) ==
    /\ initial >= 1
    /\ next_player' = DUPLICATOR_ID
    /\ winner' = None
    /\ current_position' = initial
    /\ game_initial_position' = initial
    /\ final_position' = day + month + year
    /\ max_move' = day + month

\* -------------------------------------------------------- SpoilerBot
\* Mutant of BaseWindow: the window starts one position too low.
BaseWindow_wide(final, maxm, initial) ==
    Range(max2(final - maxm - 1, initial), final)

\* Line 183: range(max(final - max_move, initial), final), read right after
\* Game.__init__ has set the fields from (day, month, year, initial).
BaseWindow(final, maxm, initial) == Range(max2(final - maxm, initial), final)

\* Mutant of AllWinning: all_winning is never cleared.
AllWinning_unchecked(o) == TRUE

\* Lines 202-207: every position in (o, o + max_move] is in winning_strategy.
AllWinning(o) ==
    \A n \in Range(o + 1, o + max_move + 1) : n \in winning_strategy

\* Line 199: the opponent positions looked at below a position i.
OpponentPositions(i) == Range(max2(game_initial_position, i - max_move), i)

\* Lines 200-208: those that pass the `continue` test and the all_winning test.
Qualifying(i) ==
    { o \in OpponentPositions(i) :
        /\ ~(o < game_initial_position \/ o \in winning_strategy)
        /\ AllWinning(o) }

\* Mutant of NewPositionsFor: the range is not capped at initial_position.
NewPositionsFor_uncapped(o) == Range(o - max_move, o)

\* Mutant of NewPositionsFor: the arguments of range() swapped (an empty range).
NewPositionsFor_swapped(o) == Range(o, max2(game_initial_position, o - max_move))

\* Line 210: the positions added to new_positions for an opponent position o.
NewPositionsFor(o) == Range(max2(game_initial_position, o - max_move), o)

\* Line 212: the keys of winning_moves that get o appended.
MoveKeysFor(o) == Range(o - max_move, o)

\* Mutant of AppendMove: the position above the opponent position is stored.
AppendMove_next(moves, o) ==
    [ x \in (DOMAIN moves) \cup MoveKeysFor(o) |->
        IF x \in MoveKeysFor(o)
        THEN (IF x \in DOMAIN moves THEN moves[x] ELSE << >>) \o << o + 1 >>
        ELSE moves[x] ]

\* Lines 212-213: winning_moves[x] = (winning_moves.get(x) or []) + [o].
AppendMove(moves, o) ==
    [ x \in (DOMAIN moves) \cup MoveKeysFor(o) |->
        IF x \in MoveKeysFor(o)
        THEN (IF x \in DOMAIN moves THEN moves[x] ELSE << >>) \o << o >>
        ELSE moves[x] ]

\* The inner for-loop (line 199) over the qualifying opponent positions, in
\* increasing order as range() yields them.
RECURSIVE AppendMoves(_, _)
AppendMoves(moves, os) ==
    IF os = {} THEN moves
    ELSE AppendMoves(AppendMove(moves, Min(os)), os \ { Min(os) })

\* SpoilerBot.__init__ (lines 171-187) up to the first pass of the while loop
\* of find_winning_strategy: previous_positions is winning_strategy itself.
SpoilerBot_init ==
    /\ pc = "construct"
    /\ Game_init(birth_day, birth_month, birth_year, initial_position)
    /\ LET base == BaseWindow(birth_day + birth_month + birth_year,
                              birth_day + birth_month, initial_position)
       IN /\ winning_strategy' = base
          /\ winning_moves' =
                [ x \in base |-> << birth_day + birth_month + birth_year >> ]
          /\ previous_positions' = base
          /\ todo' = base
    /\ new_positions' = {}
    /\ updated_strategy' = FALSE
    /\ advice' = None
    /\ last_move' = 0
    /\ raised' = FALSE
    /\ pc' = "induction"
    /\ UNCHANGED inputVars

\* One iteration of `for i in previous_positions` (lines 198-214).  A Python
\* set is iterated in an order the program does not control: any remaining i.
VisitPosition ==
    /\ pc = "induction"
    /\ \E i \in todo :
        /\ todo' = todo \ { i }
        /\ new_positions' =
              new_positions \cup UNION { NewPositionsFor(o) : o \in Qualifying(i) }
        /\ winning_moves' = AppendMoves(winning_moves, Qualifying(i))
        /\ updated_strategy' = (updated_strategy \/ Qualifying(i) # {})
    /\ UNCHANGED << pc, inputVars, gameVars, winning_strategy,
                    previous_positions, obsVars >>

\* Lines 215-220 and, when the loop goes on, lines 196-197 of the next pass.
EndPass ==
    /\ pc = "induction"
    /\ todo = {}
    /\ winning_strategy' = winning_strategy \cup new_positions
    /\ previous_positions' = new_positions
    /\ IF ~updated_strategy
       THEN /\ pc' = "duplicator"
            /\ UNCHANGED << new_positions, updated_strategy, todo >>
       ELSE /\ pc' = "induction"
            /\ new_positions' = {}
            /\ updated_strategy' = FALSE
            /\ todo' = new_positions
    /\ UNCHANGED << inputVars, gameVars, winning_moves, obsVars >>

\* ------------------------------------------------------ move selection
\* Line 236 (read_next_move) and line 255 (pick_random_move) use the same range.
LegalMoves == 1 .. min2(max_move, final_position - current_position)

\* max(None) at line 250 when the current position has no winning_moves entry.
SmartMoveRaises ==
    /\ current_position \in winning_strategy
    /\ current_position \notin DOMAIN winning_moves

\* Mutant of pick_smart_move: the delta is one short of the target.
pick_smart_move_short ==
    IF current_position \in winning_strategy
    THEN LET delta == Max(Elems(winning_moves[current_position]))
                        - current_position - 1
         IN IF delta = 0 THEN None ELSE Some(delta)
    ELSE None

\* Mutant of pick_smart_move: the target position is returned, not the delta.
pick_smart_move_position ==
    IF current_position \in winning_strategy
    THEN LET target == Max(Elems(winning_moves[current_position]))
         IN IF target = 0 THEN None ELSE Some(target)
    ELSE None

\* pick_smart_move (lines 249-251); `x or None` turns a zero delta into None.
pick_smart_move ==
    IF current_position \in winning_strategy
    THEN LET delta == Max(Elems(winning_moves[current_position])) - current_position
         IN IF delta = 0 THEN None ELSE Some(delta)
    ELSE None

\* A perform_move call made by a mode function: an AssertionError is not
\* caught by __main__ and ends the program.
PlayMove(move, otherwise) ==
    /\ last_move' = move
    /\ IF MoveAccepted(move)
       THEN /\ perform_move(move)
            /\ raised' = FALSE
            /\ pc' = IF current_position + move = final_position
                     THEN "over" ELSE otherwise
       ELSE /\ raised' = TRUE
            /\ pc' = "crashed"
            /\ UNCHANGED gameVars

\* The Duplicator half of random_mode / smart_mode / advisor_mode, entered from
\* play() while winner is None: advisor_mode first logs its advice (lines
\* 279-283), then the move typed at read_next_move is performed.
DuplicatorMove ==
    /\ pc = "duplicator"
    /\ winner = None
    /\ IF game_mode = "advisor" /\ SmartMoveRaises
       THEN /\ pc' = "crashed"
            /\ UNCHANGED << gameVars, obsVars >>
       ELSE /\ advice' = IF game_mode = "advisor" THEN pick_smart_move ELSE advice
            /\ \E move \in LegalMoves : PlayMove(move, "spoiler")
    /\ UNCHANGED << inputVars, botVars, loopVars >>

\* The Spoiler half of random_mode (line 264).
SpoilerRandomMove ==
    /\ pc = "spoiler"
    /\ game_mode = "random"
    /\ \E move \in LegalMoves : PlayMove(move, "duplicator")
    /\ UNCHANGED << inputVars, botVars, loopVars, advice >>

\* The Spoiler half of smart_mode and advisor_mode (lines 273 and 288):
\* pick_smart_move() or pick_random_move().
SpoilerSmartMove ==
    /\ pc = "spoiler"
    /\ game_mode \in { "smart", "advisor" }
    /\ IF SmartMoveRaises
       THEN /\ pc' = "crashed"
            /\ UNCHANGED << gameVars, last_move, raised >>
       ELSE IF pick_smart_move # None
            THEN PlayMove(pick_smart_move[1], "duplicator")
            ELSE \E move \in LegalMoves : PlayMove(move, "duplicator")
    /\ UNCHANGED << inputVars, botVars, loopVars, advice >>

\* ------------------------------------------------------------- __main__
\* read_date_of_birth: only a date that passes is_valid_date is stored.
read_date_of_birth ==
    /\ pc = "read_date"
    /\ \E day \in Days, month \in Months, year \in Years :
        /\ is_valid_date(year, month, day)
        /\ birth_day' = day
        /\ birth_month' = month
        /\ birth_year' = year
    /\ pc' = "define_position"
    /\ UNCHANGED << initial_position, game_mode, gameVars, botVars, loopVars,
                    obsVars >>

\* The positions define_intial_position can return: read_initial_position
\* accepts 1 .. day + month + year (line 54), random_initial_position draws
\* from the same interval (line 65).  MaxSpan keeps the ones near the end.
InitialPositions ==
    { p \in 1 .. (birth_day + birth_month + birth_year) :
        p >= birth_day + birth_month + birth_year - MaxSpan }

define_intial_position ==
    /\ pc = "define_position"
    /\ \E p \in InitialPositions : initial_position' = p
    /\ pc' = "read_mode"
    /\ UNCHANGED << birth_day, birth_month, birth_year, game_mode, gameVars,
                    botVars, loopVars, obsVars >>

read_game_mode ==
    /\ pc = "read_mode"
    /\ \E m \in Modes : game_mode' = m
    /\ pc' = "construct"
    /\ UNCHANGED << birth_day, birth_month, birth_year, initial_position,
                    gameVars, botVars, loopVars, obsVars >>

\* read_play_again (lines 309-312) once play() has returned.
read_play_again ==
    /\ pc = "over"
    /\ \E again \in BOOLEAN : pc' = IF again THEN "define_position" ELSE "exit"
    /\ UNCHANGED << inputVars, gameVars, botVars, loopVars, obsVars >>

\* Before the first game nothing is bound and no Game or SpoilerBot object
\* exists: the integer variables read 0 and game_mode reads "unset" until the
\* statement that first assigns them.
Init ==
    /\ pc = "read_date"
    /\ birth_day = 0 /\ birth_month = 0 /\ birth_year = 0
    /\ initial_position = 0
    /\ game_mode = "unset"
    /\ next_player = 0 /\ winner = None /\ current_position = 0
    /\ game_initial_position = 0 /\ final_position = 0 /\ max_move = 0
    /\ winning_strategy = {} /\ winning_moves = << >>
    /\ previous_positions = {} /\ new_positions = {}
    /\ updated_strategy = FALSE /\ todo = {}
    /\ advice = None /\ last_move = 0 /\ raised = FALSE

Next ==
    \/ read_date_of_birth
    \/ define_intial_position
    \/ read_game_mode
    \/ SpoilerBot_init
    \/ VisitPosition
    \/ EndPass
    \/ DuplicatorMove
    \/ SpoilerRandomMove
    \/ SpoilerSmartMove
    \/ read_play_again

Spec == Init /\ [][Next]_vars

\* The program is sequential and keeps running: whenever a step is possible
\* (an accepted input included) one is eventually taken.
FairSpec == Spec /\ WF_vars(Next)

\* ------------------------------------------------- the Game object alone
\* A Game constructed from inputs __main__ can pass, then driven by arbitrary
\* perform_move calls; a call whose assertion fails raises and changes nothing.
MoveArguments == (-1) .. (max_move + 1)

GameInit ==
    /\ pc = "game"
    /\ \E day \in Days, month \in Months, year \in Years :
        /\ is_valid_date(year, month, day)
        /\ birth_day = day /\ birth_month = month /\ birth_year = year
        /\ final_position = day + month + year
        /\ max_move = day + month
    /\ initial_position \in InitialPositions
    /\ initial_position >= 1
    /\ game_mode = "unset"
    /\ next_player = DUPLICATOR_ID
    /\ winner = None
    /\ current_position = initial_position
    /\ game_initial_position = initial_position
    /\ winning_strategy = {} /\ winning_moves = << >>
    /\ previous_positions = {} /\ new_positions = {}
    /\ updated_strategy = FALSE /\ todo = {}
    /\ advice = None /\ last_move = 0 /\ raised = FALSE

perform_move_call ==
    /\ pc = "game"
    /\ \E move \in MoveArguments :
        /\ last_move' = move
        /\ IF MoveAccepted(move)
           THEN perform_move(move) /\ raised' = FALSE
           ELSE raised' = TRUE /\ UNCHANGED gameVars
    /\ UNCHANGED << pc, inputVars, botVars, loopVars, advice >>

GameNext == perform_move_call

GameSpec == GameInit /\ [][GameNext]_vars


\* --------------------------------------------- the strategy engine alone
\* SpoilerBot(day, month, year, initial_position, game_mode) constructed
\* directly: the constructor validates no date, so any small non-negative
\* day, month and year are drawn, with 1 <= initial_position <= final.
EngineInit ==
    /\ pc = "construct"
    /\ birth_day \in 0 .. MaxEngineDay
    /\ birth_month \in 0 .. MaxEngineMonth
    /\ birth_year \in 0 .. MaxEngineYear
    /\ initial_position \in 1 .. (birth_day + birth_month + birth_year)
    /\ game_mode \in Modes
    /\ next_player = 0 /\ winner = None /\ current_position = 0
    /\ game_initial_position = 0 /\ final_position = 0 /\ max_move = 0
    /\ winning_strategy = {} /\ winning_moves = << >>
    /\ previous_positions = {} /\ new_positions = {}
    /\ updated_strategy = FALSE /\ todo = {}
    /\ advice = None /\ last_move = 0 /\ raised = FALSE

EngineNext ==
    \/ SpoilerBot_init
    \/ VisitPosition
    \/ EndPass

EngineSpec == EngineInit /\ [][EngineNext]_vars

\* ------------------------------------------ a Duplicator who takes advice
\* The Duplicator half of the mode functions when, in advisor mode, the move
\* typed at read_next_move is the advised one whenever advice was given.
DuplicatorAdvisedMove ==
    /\ DuplicatorMove
    /\ (game_mode = "advisor" /\ pc' # "crashed" /\ advice' # None)
          => last_move' = advice'[1]

AdvisedNext ==
    \/ read_date_of_birth
    \/ define_intial_position
    \/ read_game_mode
    \/ SpoilerBot_init
    \/ VisitPosition
    \/ EndPass
    \/ DuplicatorAdvisedMove
    \/ SpoilerRandomMove
    \/ SpoilerSmartMove
    \/ read_play_again

AdvisedSpec == Init /\ [][AdvisedNext]_vars /\ WF_vars(AdvisedNext)

\* ============================================================== claims
\* The strategy engine has been built and play() is running or has returned.
EngineBuilt == pc \in { "duplicator", "spoiler", "over" }

Positions == Range(game_initial_position, final_position)

\* The game's win/lose recursion: the player to move from p can force being
\* the one who moves onto final_position.
RECURSIVE MoverWins(_)
MoverWins(p) ==
    \E m \in 1 .. min2(max_move, final_position - p) :
        p + m = final_position \/ ~MoverWins(p + m)

\* C1 as stated: once the engine is built, the player to move from any
\* position of winning_strategy loses under optimal opposing play.
C1_MembersLose ==
    EngineBuilt /\ game_initial_position < final_position
        => \A p \in winning_strategy : ~MoverWins(p)

\* C1 as amended: once the engine is built, the player to move from any
\* position of winning_strategy can force being the one who moves onto
\* final_position (the members are the mover's winning positions).
C1_MembersWin ==
    EngineBuilt /\ game_initial_position < final_position
        => \A p \in winning_strategy : p \in Positions /\ MoverWins(p)

\* A built engine whose set holds a position found by the inductive step.
C1_Witness ==
    /\ EngineBuilt
    /\ game_initial_position < final_position
    /\ \E p \in winning_strategy : p < final_position - max_move

\* C2 as stated: from a member of winning_strategy every legal move lands on
\* final_position or outside winning_strategy.
C2_EveryMoveLeaves ==
    EngineBuilt =>
        \A p \in winning_strategy :
            \A m \in 1 .. max_move :
                p + m <= final_position =>
                    (p + m = final_position \/ p + m \notin winning_strategy)

\* C2 as amended: from a member of winning_strategy at least one legal move
\* lands on final_position or outside winning_strategy.
C2_SomeMoveLeaves ==
    EngineBuilt =>
        \A p \in winning_strategy :
            \E m \in 1 .. max_move :
                /\ p + m <= final_position
                /\ (p + m = final_position \/ p + m \notin winning_strategy)

\* A built engine with a member two inductive layers below final_position.
C2_Witness ==
    /\ EngineBuilt
    /\ \E p \in winning_strategy : p < final_position - 2 * max_move - 1

\* C3: once the engine is built, every position in [initial, final) outside
\* winning_strategy has a legal move onto a member or onto final_position.
C3_Completeness ==
    EngineBuilt =>
        \A h \in Positions \ winning_strategy :
            \E m \in 1 .. max_move :
                /\ h + m <= final_position
                /\ (h + m \in winning_strategy \/ h + m = final_position)

\* A built engine that left some position of [initial, final) out of the set.
C3_Witness ==
    /\ EngineBuilt
    /\ Cardinality(Positions \ winning_strategy) >= 2

\* C4: in smart mode, once the Spoiler is to move from a member of
\* winning_strategy, the game ends with the Spoiler as winner whatever legal
\* moves the Duplicator types afterwards.
C4_SmartSpoilerWins ==
    (/\ pc = "spoiler"
     /\ game_mode = "smart"
     /\ game_initial_position < final_position
     /\ current_position \in winning_strategy)
        ~> (winner = Some(SPOILER_ID))

\* The Spoiler to move in smart mode from a member that is more than one move
\* away from final_position.
C4_Witness ==
    /\ pc = "spoiler"
    /\ game_mode = "smart"
    /\ current_position \in winning_strategy
    /\ current_position < final_position - max_move

\* C5: in every state of a Game, initial <= current <= final, and
\* current_position never decreases from one state to the next.
C5_PositionBounded ==
    /\ [](pc = "game" =>
            /\ game_initial_position <= current_position
            /\ current_position <= final_position)
    /\ [][current_position' >= current_position]_vars

\* A Game that has moved and whose last perform_move call raised.
C5_Witness ==
    /\ pc = "game"
    /\ raised
    /\ current_position > game_initial_position

\* C6: in every state of a Game, the initial one included, winner is set if
\* and only if current_position = final_position.
C6_WinnerIffFinal ==
    pc = "game" => ((winner # None) <=> (current_position = final_position))

\* C7: the while loop of find_winning_strategy terminates, and
\* winning_strategy is a subset of [initial_position, final_position).
C7_TerminatesInRange ==
    /\ (pc = "induction") ~> EngineBuilt
    /\ [](pc \in { "induction", "duplicator", "spoiler", "over" } =>
            winning_strategy \subseteq Positions)

\* The loop has ended after adding positions below the base window.
C7_Witness ==
    /\ pc = "duplicator"
    /\ game_initial_position < final_position
    /\ current_position = game_initial_position
    /\ Cardinality(winning_strategy) > max_move

\* C8: while a game with initial < final is being played, pick_smart_move
\* does not raise and any delta it returns is a legal move:
\* 1 <= delta <= max_move and current_position + delta <= final_position.
C8_SmartMoveLegal ==
    (pc \in { "duplicator", "spoiler" } /\ game_initial_position < final_position)
        => /\ ~SmartMoveRaises
           /\ pick_smart_move # None =>
                /\ 1 <= pick_smart_move[1]
                /\ pick_smart_move[1] <= max_move
                /\ current_position + pick_smart_move[1] <= final_position

\* pick_smart_move returns a delta at a position reached by play that is more
\* than one move away from final_position.
C8_Witness ==
    /\ pc \in { "duplicator", "spoiler" }
    /\ current_position > game_initial_position
    /\ current_position < final_position - max_move
    /\ ~SmartMoveRaises
    /\ pick_smart_move # None

\* The three preconditions of perform_move, as the claim lists them.
PreconditionViolated(move) ==
    \/ winner # None
    \/ move < 1 \/ move > max_move
    \/ current_position + move > final_position

\* C9: a perform_move call raises exactly when one of its three preconditions
\* is violated, and a call that raises leaves current_position, next_player
\* and winner unchanged.
C9_FailsExactly ==
    [][ /\ raised' <=> PreconditionViolated(last_move')
        /\ raised' => UNCHANGED << current_position, next_player, winner >>
        /\ ~raised' => current_position' = current_position + last_move' ]_vars

\* A call with a move too large raised while the game was still open, after
\* the Spoiler had become the next player.
C9_Witness ==
    /\ pc = "game"
    /\ raised
    /\ winner = None
    /\ last_move > max_move
    /\ next_player = SPOILER_ID

\* C10: once the engine is built (initial < final), the keys of winning_moves
\* are exactly the members of winning_strategy.
C10_KeysAreMembers ==
    EngineBuilt /\ game_initial_position < final_position
        => DOMAIN winning_moves = winning_strategy

\* C11 as stated: for max_move = 2, final_position = 10, initial_position = 1
\* the computed winning_strategy is exactly {8, 9, 7, 6, 4, 3, 1}.
C11_ScenarioAsStated ==
    (/\ EngineBuilt
     /\ max_move = 2 /\ final_position = 10 /\ game_initial_position = 1)
        => winning_strategy = { 8, 9, 7, 6, 4, 3, 1 }

\* C11 as amended: for max_move = 2, final_position = 10, initial_position = 1
\* the computed winning_strategy is exactly {2, 3, 5, 6, 8, 9} and the
\* positions of [1, 10) outside it are exactly {1, 4, 7}.
C11_Scenario ==
    (/\ EngineBuilt
     /\ max_move = 2 /\ final_position = 10 /\ game_initial_position = 1)
        => /\ winning_strategy = { 2, 3, 5, 6, 8, 9 }
           /\ Positions \ winning_strategy = { 1, 4, 7 }

\* The engine built for exactly these bounds.
C11_Witness ==
    /\ EngineBuilt
    /\ max_move = 2 /\ final_position = 10 /\ game_initial_position = 1
    /\ birth_year = 8

\* C12 as stated: a successful perform_move adds the move to
\* current_position; landing on final_position sets winner to the mover and
\* leaves next_player unchanged, otherwise next_player toggles and winner
\* stays unset.
C12_EffectAsStated ==
    [][ raised' = FALSE =>
          /\ current_position' = current_position + last_move'
          /\ IF current_position' = final_position
             THEN winner' = Some(next_player) /\ next_player' = next_player
             ELSE winner' = None /\ next_player' = 1 - next_player ]_vars

\* C12 as amended: a successful perform_move adds the move to
\* current_position and toggles next_player in both cases; landing on
\* final_position sets winner to the mover, otherwise winner stays unset.
C12_Effect ==
    [][ raised' = FALSE =>
          /\ current_position' = current_position + last_move'
          /\ next_player' = 1 - next_player
          /\ IF current_position' = final_position
             THEN winner' = Some(next_player)
             ELSE winner' = None ]_vars

\* The Duplicator has just won and next_player has moved on to the Spoiler.
C12_Witness ==
    /\ pc = "game"
    /\ ~raised
    /\ winner = Some(DUPLICATOR_ID)
    /\ next_player = SPOILER_ID

\* C13: a Game exists only if final_position - initial_position >= 1 and
\* max_move >= 1 (construction fails otherwise).
C13_ConstructionChecked ==
    pc \in { "induction", "duplicator", "spoiler", "over" }
        => /\ final_position - game_initial_position >= 1
           /\ max_move >= 1

\* C14: winner is unset while current_position is not final_position; the
\* move that lands on final_position sets it to the player who moved; from
\* then on winner keeps its value and every perform_move call raises.
C14_WinnerIsFinal ==
    /\ [](pc = "game" /\ current_position # final_position => winner = None)
    /\ [][ /\ (winner = None /\ winner' # None) =>
                /\ raised' = FALSE
                /\ current_position' = final_position
                /\ winner' = Some(next_player)
           /\ winner # None =>
                /\ winner' = winner
                /\ raised' = TRUE
                /\ UNCHANGED gameVars ]_vars

\* The Spoiler has won and a later perform_move call has raised.
C14_Witness ==
    /\ pc = "game"
    /\ winner = Some(SPOILER_ID)
    /\ raised
    /\ last_move = 1

\* C15: while a game is being played, pick_smart_move returns None exactly
\* when current_position is not in winning_strategy; otherwise it returns
\* max(winning_moves[current_position]) - current_position, which is not zero.
C15_SmartMoveValue ==
    pc \in { "duplicator", "spoiler" } =>
        /\ ~SmartMoveRaises
        /\ (pick_smart_move = None) <=> (current_position \notin winning_strategy)
        /\ current_position \in winning_strategy =>
            /\ Max(Elems(winning_moves[current_position])) # current_position
            /\ pick_smart_move =
                 Some(Max(Elems(winning_moves[current_position]))
                        - current_position)

\* Play has reached a member one step below final_position, and earlier a
\* position outside winning_strategy was passed.
C15_Witness ==
    /\ pc \in { "duplicator", "spoiler" }
    /\ current_position = final_position - 1
    /\ current_position \in winning_strategy
    /\ game_initial_position \notin winning_strategy

\* C16 as stated: every member p of winning_strategy has at least one entry in
\* winning_moves[p]; every entry t is one legal move away from p and is itself
\* a member of winning_strategy or final_position.
C16_EntriesAsStated ==
    EngineBuilt /\ game_initial_position < final_position =>
        \A p \in winning_strategy :
            /\ p \in DOMAIN winning_moves
            /\ Len(winning_moves[p]) >= 1
            /\ \A t \in Elems(winning_moves[p]) :
                /\ 1 <= t - p /\ t - p <= max_move /\ t <= final_position
                /\ (t \in winning_strategy \/ t = final_position)

\* C16 as amended: every member p of winning_strategy has at least one entry in
\* winning_moves[p]; every entry t is one legal move away from p and is
\* final_position or a position of [initial, final) outside winning_strategy.
C16_Entries ==
    EngineBuilt /\ game_initial_position < final_position =>
        \A p \in winning_strategy :
            /\ p \in DOMAIN winning_moves
            /\ Len(winning_moves[p]) >= 1
            /\ \A t \in Elems(winning_moves[p]) :
                /\ 1 <= t - p /\ t - p <= max_move /\ t <= final_position
                /\ (t = final_position \/ t \in Positions \ winning_strategy)

\* A built engine with a member whose entry is not final_position.
C16_Witness ==
    /\ EngineBuilt
    /\ \E p \in winning_strategy :
        /\ p \in DOMAIN winning_moves
        /\ \E t \in Elems(winning_moves[p]) : t # final_position

\* C17: in advisor mode with initial < final and initial_position in
\* winning_strategy, a Duplicator who plays every advised move is advised at
\* each of their turns and the game ends with the Duplicator as winner,
\* whatever the Spoiler plays.
C17_AdvisedDuplicatorWins ==
    /\ []((/\ pc = "duplicator"
           /\ game_mode = "advisor"
           /\ game_initial_position < final_position
           /\ game_initial_position \in winning_strategy)
             => (~SmartMoveRaises /\ pick_smart_move # None))
    /\ (/\ pc = "duplicator"
        /\ game_mode = "advisor"
        /\ game_initial_position < final_position
        /\ game_initial_position \in winning_strategy)
          ~> (winner = Some(DUPLICATOR_ID))

\* An advised Duplicator, started on a member more than two moves away from
\* final_position, is to move again after the Spoiler has answered.
C17_Witness ==
    /\ pc = "duplicator"
    /\ game_mode = "advisor"
    /\ game_initial_position \in winning_strategy
    /\ game_initial_position < final_position - 2 * max_move
    /\ current_position > game_initial_position
    /\ advice # None

\* C18: for 1 <= initial < final and max_move >= 1 the computed
\* winning_strategy is exactly the positions p of [initial, final) with
\* (final - p) mod (max_move + 1) # 0.
C18_ClosedForm ==
    (/\ EngineBuilt
     /\ game_initial_position < final_position
     /\ max_move >= 1)
        => winning_strategy =
             { p \in Positions : (final_position - p) % (max_move + 1) # 0 }

\* The engine built for max_move = 1 over at least five positions.
C18_Witness ==
    /\ EngineBuilt
    /\ max_move = 1
    /\ final_position - game_initial_position >= 5
    /\ Cardinality(winning_strategy) >= 3

\* C19: during play() in any mode no perform_move call raises: every move
\* performed is in [1, min(max_move, final - current)] and is made while
\* winner is unset.
C19_NoAssertionFails ==
    /\ [](pc # "crashed" /\ raised = FALSE)
    /\ [][ (pc \in { "duplicator", "spoiler" }
              /\ current_position' # current_position)
            => (last_move' \in LegalMoves /\ winner = None) ]_vars

\* An advisor-mode game that the Spoiler has won.
C19_Witness ==
    /\ pc = "over"
    /\ game_mode = "advisor"
    /\ winner = Some(SPOILER_ID)
    /\ raised = FALSE

\* C20: every game that play() starts ends with a winner, the two players
\* moving in strict alternation, after at most final - initial moves.
C20_GameEnds ==
    /\ (pc = "duplicator") ~> (winner # None)
    /\ [][ (pc \in { "duplicator", "spoiler" }
              /\ current_position' # current_position)
            => /\ next_player = (IF pc = "duplicator" THEN DUPLICATOR_ID
                                                      ELSE SPOILER_ID)
               /\ next_player' = 1 - next_player
               /\ current_position' <= final_position ]_vars

====
